---- MODULE Spec2Model ----
(***************************************************************************)
(* A model of SBTi/temperature_score.py: the scenario resolver, the        *)
(* reduction-rate calculator, the regression lookup and merge, the score   *)
(* engine, the scope blender, the scenario capper and the aggregator.      *)
(*                                                                         *)
(* Numbers are exact rationals [k |-> "num", n, d] (n/d in lowest terms,   *)
(* d > 0); the IEEE specials the code can produce are the values NaN,      *)
(* PosInf and NegInf, and Python's None is the value None.  Floating-point *)
(* rounding is not modelled.                                               *)
(***************************************************************************)
EXTENDS Integers, Sequences, FiniteSets, TLC

VARIABLES
    scenario,          \* self.scenario: NoScenario or a Scenario record
    fallback_score,    \* self.fallback_score
    aggregation_method,\* self.aggregation_method
    grouping,          \* self.grouping
    regression_model,  \* self.regression_model: a sequence of reference rows
    data,              \* the data frame handed to the operations: a sequence of rows
    pc,                \* the stage the current invocation has reached
    error,             \* the exception that ended the invocation, or NoError
    ret,               \* the value the last call returned
    arg                \* the argument of the last direct call

vars == <<scenario, fallback_score, aggregation_method, grouping,
          regression_model, data, pc, error, ret, arg>>

-----------------------------------------------------------------------------
(* Values *)

Abs(x) == IF x < 0 THEN -x ELSE x

RECURSIVE Gcd(_, _)
Gcd(a, b) == IF b = 0 THEN a ELSE Gcd(b, a % b)

\* The rational n/d (d # 0) in lowest terms with a positive denominator.
Rat(n, d) ==
    LET g == Gcd(Abs(n), Abs(d))
        s == IF d < 0 THEN -1 ELSE 1
    IN  [k |-> "num", n |-> (s * n) \div g, d |-> (s * d) \div g]

Num(i) == [k |-> "num", n |-> i, d |-> 1]
None   == [k |-> "none", n |-> 0, d |-> 1]
NaN    == [k |-> "nan", n |-> 0, d |-> 1]
PosInf == [k |-> "inf", n |-> 1, d |-> 1]
NegInf == [k |-> "inf", n |-> -1, d |-> 1]

IsNum(v) == v.k = "num"

\* pd.isnull: None and NaN are both "missing".
isnull(v) == v.k \in {"none", "nan"}

Zero == Num(0)

IsInf(v) == v.k = "inf"

\* The sign of a number or an infinity: -1, 0 or 1.
Sign(v) == IF v.n > 0 THEN 1 ELSE IF v.n < 0 THEN -1 ELSE 0

\* IEEE addition: NaN is absorbing, inf + (-inf) is NaN.
Add(a, b) ==
    IF IsNum(a) /\ IsNum(b) THEN Rat(a.n * b.d + b.n * a.d, a.d * b.d)
    ELSE IF IsInf(a) /\ IsNum(b) THEN a
    ELSE IF IsNum(a) /\ IsInf(b) THEN b
    ELSE IF IsInf(a) /\ IsInf(b) /\ a = b THEN a
    ELSE NaN

\* IEEE multiplication: NaN is absorbing, inf * 0 is NaN.
Mul(a, b) ==
    IF IsNum(a) /\ IsNum(b) THEN Rat(a.n * b.n, a.d * b.d)
    ELSE IF (IsInf(a) \/ IsNum(a)) /\ (IsInf(b) \/ IsNum(b))
    THEN IF Sign(a) * Sign(b) = 0 THEN NaN
         ELSE IF Sign(a) * Sign(b) > 0 THEN PosInf ELSE NegInf
    ELSE NaN

\* a < b as Python and numpy compare floats: every comparison with NaN is false.
Lt(a, b) ==
    IF IsNum(a) /\ IsNum(b) THEN a.n * b.d < b.n * a.d
    ELSE IF IsInf(a) /\ IsNum(b) THEN a = NegInf
    ELSE IF IsNum(a) /\ IsInf(b) THEN b = PosInf
    ELSE IF IsInf(a) /\ IsInf(b) THEN a = NegInf /\ b = PosInf
    ELSE FALSE

\* a <= b, false whenever either side is NaN.
Le(a, b) ==
    /\ IsNum(a) \/ IsInf(a)
    /\ IsNum(b) \/ IsInf(b)
    /\ ~Lt(b, a)

\* Python's builtin min(a, b): b if b < a, else a.
PyMin(a, b) == IF Lt(b, a) THEN b ELSE a

\* Python's builtin max(a, b): b if b > a, else a.
PyMax(a, b) == IF Lt(a, b) THEN b ELSE a

\* a / b on numpy float64 scalars and arrays: division by zero gives inf or
\* nan (with a RuntimeWarning), never an exception.
NumpyDiv(a, b) ==
    IF IsNum(a) /\ IsNum(b)
    THEN IF b.n # 0 THEN Rat(a.n * b.d, a.d * b.n)
         ELSE IF a.n = 0 THEN NaN
         ELSE IF a.n > 0 THEN PosInf ELSE NegInf
    ELSE IF IsNum(a) /\ IsInf(b) THEN Zero
    ELSE IF IsInf(a) /\ IsNum(b)
    THEN IF Sign(a) * Sign(b) < 0 THEN NegInf ELSE PosInf
    ELSE NaN

\* The outcome of a call: the value returned, or the exception raised.
Returned(v) == [exc |-> "none", val |-> v]
Raised(e)   == [exc |-> e, val |-> None]

ZeroDivisionError == "ZeroDivisionError"

\* a / b on Python floats raises ZeroDivisionError when b is zero.
PyDiv(a, b) ==
    IF IsNum(b) /\ b.n = 0 /\ IsNum(a) THEN Raised(ZeroDivisionError)
    ELSE Returned(NumpyDiv(a, b))

-----------------------------------------------------------------------------
(* Strings: a Python str is a sequence of one-character strings, so that     *)
(* str.upper() is computed character by character.  NoneStr is Python's None *)
(* where a str is expected.                                                  *)

Str(s)  == [isnone |-> FALSE, s |-> s]
NoneStr == [isnone |-> TRUE, s |-> <<>>]

LowerCase == <<"a","b","c","d","e","f","g","h","i","j","k","l","m",
               "n","o","p","q","r","s","t","u","v","w","x","y","z">>
UpperCase == <<"A","B","C","D","E","F","G","H","I","J","K","L","M",
               "N","O","P","Q","R","S","T","U","V","W","X","Y","Z">>

\* str.upper() on one character.
UpperChar(c) ==
    IF \E i \in 1..Len(LowerCase) : LowerCase[i] = c
    THEN UpperCase[CHOOSE i \in 1..Len(LowerCase) : LowerCase[i] = c]
    ELSE c

\* str.upper()
upper(s) == [i \in 1..Len(s) |-> UpperChar(s[i])]

S_SET_TARGETS      == <<"S","E","T","_","T","A","R","G","E","T","S">>
S_SET_SBTI_TARGETS == <<"S","E","T","_","S","B","T","I","_","T","A","R","G","E","T","S">>

-----------------------------------------------------------------------------
(* ScenarioType, EngagementType, Scenario *)

TARGETS                       == "TARGETS"
APPROVED_TARGETS              == "APPROVED_TARGETS"
HIGHEST_CONTRIBUTORS          == "HIGHEST_CONTRIBUTORS"
HIGHEST_CONTRIBUTORS_APPROVED == "HIGHEST_CONTRIBUTORS_APPROVED"
NoType                        == "None"

SET_TARGETS      == "SET_TARGETS"
SET_SBTI_TARGETS == "SET_SBTI_TARGETS"

\* Optional[Scenario]: None
NoScenario == [scenario_type |-> NoType, engagement_type |-> "None"]

\* ScenarioType.from_int's value_map without the lookup.
ScenarioTypeValueMap(value) ==
    CASE value = Num(1) -> TARGETS
      [] value = Num(2) -> APPROVED_TARGETS
      [] value = Num(3) -> HIGHEST_CONTRIBUTORS
      [] value = Num(4) -> HIGHEST_CONTRIBUTORS_APPROVED
      [] OTHER -> NoType

\* ScenarioType.from_int: value_map.get(value, None)
ScenarioType_from_int(value) ==
    ScenarioTypeValueMap(value)

\* A plausible slip: the lookup without .upper().
EngagementType_from_string_Mutant(value) ==
    IF value.isnone THEN SET_TARGETS
    ELSE IF value.s = S_SET_TARGETS THEN SET_TARGETS
    ELSE IF value.s = S_SET_SBTI_TARGETS THEN SET_SBTI_TARGETS
    ELSE SET_TARGETS

\* EngagementType.from_string
EngagementType_from_string(value) ==
    IF value.isnone THEN SET_TARGETS
    ELSE IF upper(value.s) = S_SET_TARGETS THEN SET_TARGETS
    ELSE IF upper(value.s) = S_SET_SBTI_TARGETS THEN SET_SBTI_TARGETS
    ELSE SET_TARGETS

\* A plausible slip: the two tests of get_score_cap in the other order.
get_score_cap_TypeFirst(sc) ==
    IF sc.scenario_type = APPROVED_TARGETS \/ sc.engagement_type = SET_SBTI_TARGETS
    THEN Rat(175, 100)
    ELSE IF sc.engagement_type = SET_TARGETS THEN Num(2)
    ELSE NaN

\* Scenario.get_score_cap
get_score_cap(sc) ==
    IF sc.engagement_type = SET_TARGETS THEN Num(2)
    ELSE IF sc.scenario_type = APPROVED_TARGETS \/ sc.engagement_type = SET_SBTI_TARGETS
         THEN Rat(175, 100)
    ELSE NaN

\* A plausible slip: the test against the wrong scenario type.
get_fallback_score_WrongType(sc, fallback) ==
    IF sc.scenario_type = APPROVED_TARGETS THEN Num(2) ELSE fallback

\* Scenario.get_fallback_score
get_fallback_score(sc, fallback) ==
    IF sc.scenario_type = TARGETS THEN Num(2) ELSE fallback

\* A selection handed to the resolver.  kind "dict": a dictionary that may
\* lack either key; kind "interface": a ScenarioInterface with both
\* attributes; kind "none": from_interface(None).
Selection(kind, has_number, number, has_engagement, engagement) ==
    [kind |-> kind, has_number |-> has_number, number |-> number,
     has_engagement |-> has_engagement, engagement_type |-> engagement]

\* Scenario.from_dict
from_dict(scenario_values) ==
    LET st == ScenarioType_from_int(
                  IF scenario_values.has_number THEN scenario_values.number
                  ELSE Num(-1))
        et == EngagementType_from_string(
                  IF scenario_values.has_engagement
                  THEN scenario_values.engagement_type
                  ELSE Str(<<>>))
    IN  IF st # NoType THEN [scenario_type |-> st, engagement_type |-> et]
        ELSE NoScenario

\* Scenario.from_interface
from_interface(scenario_values) ==
    IF scenario_values.kind = "none" THEN NoScenario
    ELSE LET st == ScenarioType_from_int(scenario_values.number)
             et == EngagementType_from_string(scenario_values.engagement_type)
         IN  IF st # NoType THEN [scenario_type |-> st, engagement_type |-> et]
             ELSE NoScenario

-----------------------------------------------------------------------------
(* Configuration (SBTi/configs.py: TemperatureScoreConfig and ColumnsConfig) *)

\* A missing value in a column of strings (None / NaN).
NullStr == "<null>"

S1S2   == "s1s2"
S3     == "s3"
S1S2S3 == "s1s2s3"

\* c.VALUE_TIME_FRAMES
VALUE_TIME_FRAMES == <<"short", "mid", "long">>

\* c.SLOPE_MAP
SLOPE_MAP == [tf \in {"short", "mid", "long"} |->
                 CASE tf = "short" -> "slope5"
                   [] tf = "mid"   -> "slope15"
                   [] tf = "long"  -> "slope30"]

\* c.VALUE_TARGET_REFERENCE_INTENSITY_BASE
VALUE_TARGET_REFERENCE_INTENSITY_BASE == <<"I","n","t">>

\* c.VALUE_TARGET_REFERENCE_ABSOLUTE
VALUE_TARGET_REFERENCE_ABSOLUTE == <<"A","b","s","o","l","u","t","e">>

-----------------------------------------------------------------------------
(* Rows of the data frame *)

\* A target row with every derived column still missing.
Target(company, time_frame, scope_category, trn, metric, ambition, start_year, end_year, ghg_s1s2, ghg_s3, investment_value, engagement_target) ==
    [company_id |-> company, company_name |-> company,
     time_frame |-> time_frame, scope_category |-> scope_category,
     target_reference_number |-> trn, intensity_metric |-> metric,
     reduction_ambition |-> ambition, start_year |-> start_year,
     end_year |-> end_year, ghg_s1s2 |-> ghg_s1s2, ghg_s3 |-> ghg_s3,
     investment_value |-> investment_value,
     engagement_target |-> engagement_target,
     sr15 |-> NullStr, annual_reduction_rate |-> None, slope |-> NullStr,
     variable |-> NullStr, param |-> None, intercept |-> None,
     temperature_score |-> None, temperature_results |-> None,
     contribution_relative |-> None, contribution |-> None]

\* The first exception an apply over the rows meets, "none" if there is none.
FirstExc(outcomes) ==
    IF \E i \in 1..Len(outcomes) : outcomes[i].exc # "none"
    THEN outcomes[CHOOSE i \in 1..Len(outcomes) :
                      /\ outcomes[i].exc # "none"
                      /\ \A j \in 1..(i - 1) : outcomes[j].exc = "none"].exc
    ELSE "none"

RECURSIVE Concat(_)
\* The concatenation of a sequence of sequences.
Concat(ss) == IF ss = <<>> THEN <<>> ELSE Head(ss) \o Concat(Tail(ss))

RECURSIVE Filter(_, _)
\* seq[mask]: the elements of seq at the positions where mask is TRUE.
Filter(mask, seq) ==
    IF seq = <<>> THEN <<>>
    ELSE (IF Head(mask) THEN <<Head(seq)>> ELSE <<>>)
         \o Filter(Tail(mask), Tail(seq))

-----------------------------------------------------------------------------
(* Target Mapper *)

IsSpace(c) == c \in {" ", "\t", "\n"}

RECURSIVE lstrip(_)
lstrip(s) == IF s # <<>> /\ IsSpace(Head(s)) THEN lstrip(Tail(s)) ELSE s

RECURSIVE rstrip(_)
rstrip(s) ==
    IF s # <<>> /\ IsSpace(s[Len(s)]) THEN rstrip(SubSeq(s, 1, Len(s) - 1)) ELSE s

\* str.strip()
strip(s) == rstrip(lstrip(s))

\* str.startswith(prefix)
startswith(s, prefix) ==
    /\ Len(s) >= Len(prefix)
    /\ SubSeq(s, 1, Len(prefix)) = prefix

\* get_target_mapping's intensity_mappings.get(metric, None)
intensity_mappings(metric) ==
    CASE metric \in {"Revenue", "Product", "Cement", "Steel", "Aluminum"}
             -> "INT.emKyoto_gdp"
      [] metric = "Oil"   -> "INT.emCO2EI_PE"
      [] metric = "Power" -> "INT.emCO2EI_elecGen"
      [] OTHER -> NullStr

\* TemperatureScore.get_target_mapping
get_target_mapping(target) ==
    IF startswith(strip(target.target_reference_number.s),
                  VALUE_TARGET_REFERENCE_INTENSITY_BASE)
    THEN intensity_mappings(target.intensity_metric)
    ELSE "Emissions|Kyoto Gases"

-----------------------------------------------------------------------------
(* Reduction-Rate Calculator *)

ValueError_SameYear ==
    "ValueError: Couldn't calculate the annual reduction rate because the start and target year are the same"

\* The row's scalars are Python objects (a row of an object frame, as
\* data.apply(axis=1) builds it from a frame that holds strings) or numpy
\* float64 scalars (a float64 Series).
Boxings == {"python", "numpy"}

\* TemperatureScore.get_annual_reduction_rate; float(end - start) is a Python
\* float, so the division is the numerator's: float.__truediv__ raises
\* ZeroDivisionError, numpy.float64.__truediv__ returns inf or nan.
get_annual_reduction_rate(target, boxing) ==
    IF isnull(target.reduction_ambition) THEN Returned(None)
    ELSE LET years == Add(target.end_year, Mul(Num(-1), target.start_year))
             q == IF boxing = "python"
                  THEN PyDiv(target.reduction_ambition, years)
                  ELSE Returned(NumpyDiv(target.reduction_ambition, years))
         IN  IF q.exc = ZeroDivisionError THEN Raised(ValueError_SameYear)
             ELSE q

-----------------------------------------------------------------------------
(* Regression Lookup *)

ValueError_Regression ==
    "ValueError: There is more than one potential regression parameter for this SR15 goal."

\* One row of the regression reference table.
Reference(variable, slope, param, intercept) ==
    [variable |-> variable, slope |-> slope, param |-> param,
     intercept |-> intercept]

\* The rows of the reference table that match a (variable, slope) pair.
Matches(model, variable, slope) ==
    LET Hit(r) == r.variable = variable /\ r.slope = slope
    IN  Filter([j \in 1..Len(model) |-> Hit(model[j])], model)

\* TemperatureScore.get_regression: the pair (param, intercept) or the error.
get_regression(target, model) ==
    IF target.sr15 = NullStr THEN Returned(<<None, None>>)
    ELSE LET regression == Matches(model, target.sr15, SLOPE_MAP[target.time_frame])
         IN  IF Len(regression) = 0 THEN Returned(<<None, None>>)
             ELSE IF Len(regression) > 1 THEN Raised(ValueError_Regression)
             ELSE [exc |-> "none",
                   val |-> <<regression[1].param, regression[1].intercept>>]

\* The rows pd.merge(how="left") makes of one left row: one per matching
\* reference row, or the row itself with the reference columns missing.
MergeRow(row, model) ==
    LET slope == IF row.time_frame \in DOMAIN SLOPE_MAP
                 THEN SLOPE_MAP[row.time_frame] ELSE NullStr
        left  == [row EXCEPT !.slope = slope]
        hits  == Matches(model, left.sr15, slope)
    IN  IF Len(hits) = 0
        THEN <<[left EXCEPT !.variable = NullStr, !.param = None,
                            !.intercept = None]>>
        ELSE [i \in 1..Len(hits) |->
                 [left EXCEPT !.variable = hits[i].variable,
                              !.param = hits[i].param,
                              !.intercept = hits[i].intercept]]

\* TemperatureScore._merge_regression
merge_regression(rows, model) ==
    Concat([i \in 1..Len(rows) |-> MergeRow(rows[i], model)])

-----------------------------------------------------------------------------
(* Score Engine *)

\* The linear expression of get_score.
Linear(target) ==
    Add(Mul(Mul(target.param, target.annual_reduction_rate), Num(100)),
        target.intercept)

\* A plausible slip: the floor left out.
get_score_NoFloor(target, fallback) ==
    IF \/ isnull(target.param)
       \/ isnull(target.intercept)
       \/ isnull(target.annual_reduction_rate)
    THEN <<fallback, Num(1)>>
    ELSE <<Linear(target), Zero>>

\* A plausible slip: "and" for "or" in the missing-data test.
get_score_AllMissing(target, fallback) ==
    IF /\ isnull(target.param)
       /\ isnull(target.intercept)
       /\ isnull(target.annual_reduction_rate)
    THEN <<fallback, Num(1)>>
    ELSE <<PyMax(Linear(target), Zero), Zero>>

\* TemperatureScore.get_score: the pair (temperature score, is-default flag).
get_score(target, fallback) ==
    IF \/ isnull(target.param)
       \/ isnull(target.intercept)
       \/ isnull(target.annual_reduction_rate)
    THEN <<fallback, Num(1)>>
    ELSE <<PyMax(Linear(target), Zero), Zero>>

-----------------------------------------------------------------------------
(* Column arithmetic of pandas *)

RECURSIVE SumSkipNull(_)
\* Series.sum(): the sum of the values that are not missing (0 if none is).
SumSkipNull(vals) ==
    IF vals = <<>> THEN Zero
    ELSE IF isnull(Head(vals)) THEN SumSkipNull(Tail(vals))
    ELSE Add(Head(vals), SumSkipNull(Tail(vals)))

\* The values of a sequence that are not missing.
NotNull(vals) == LET Present(v) == ~isnull(v) IN Filter([j \in 1..Len(vals) |-> Present(vals[j])], vals)

\* GroupBy.mean(): the mean of the values that are not missing, NaN if all are.
Mean(vals) ==
    IF NotNull(vals) = <<>> THEN NaN
    ELSE NumpyDiv(SumSkipNull(vals), Num(Len(NotNull(vals))))

\* The values of a sequence without repetition, in first-seen order
\* (Series.unique()).
RECURSIVE Unique(_)
Unique(seq) ==
    IF seq = <<>> THEN <<>>
    ELSE LET init == Unique(SubSeq(seq, 1, Len(seq) - 1))
             last == seq[Len(seq)]
         IN  IF \E i \in 1..Len(init) : init[i] = last THEN init
             ELSE Append(init, last)

Range(seq) == {seq[i] : i \in 1..Len(seq)}

-----------------------------------------------------------------------------
(* Scope Blender *)

KeyError == "KeyError"

ValueError_MeanZero ==
    "ValueError: The mean of the S1+S2 plus the S3 emissions is zero"

\* The rows of one (company, time-frame, scope-category) group.
Group(rows, company, time_frame, scope) ==
    LET In(r) == /\ r.company_id = company
                 /\ r.time_frame = time_frame
                 /\ r.scope_category = scope
    IN  Filter([j \in 1..Len(rows) |-> In(rows[j])], rows)

\* company_data.loc[(company, time_frame, scope)]: the group's means.
GroupMean(rows, company, time_frame, scope) ==
    LET g == Group(rows, company, time_frame, scope)
    IN  [ghg_s1s2            |-> Mean([i \in 1..Len(g) |-> g[i].ghg_s1s2]),
         ghg_s3              |-> Mean([i \in 1..Len(g) |-> g[i].ghg_s3]),
         temperature_score   |-> Mean([i \in 1..Len(g) |-> g[i].temperature_score]),
         temperature_results |-> Mean([i \in 1..Len(g) |-> g[i].temperature_results])]

\* The materiality threshold of get_ghc_temperature_score: 0.4
S3Threshold == Rat(4, 10)

\* TemperatureScore.get_ghc_temperature_score.  s1s2 and s3 are rows of the
\* float64 frame groupby().mean() returns, so every division is numpy's and
\* ZeroDivisionError is never raised.
get_ghc_temperature_score(row, rows) ==
    IF row.scope_category # S1S2S3
    THEN Returned(<<row.temperature_score, row.temperature_results>>)
    ELSE IF \/ Group(rows, row.company_id, row.time_frame, S1S2) = <<>>
            \/ Group(rows, row.company_id, row.time_frame, S3) = <<>>
    THEN Raised(KeyError)
    ELSE LET s1s2 == GroupMean(rows, row.company_id, row.time_frame, S1S2)
             s3   == GroupMean(rows, row.company_id, row.time_frame, S3)
             company_emissions == Add(s1s2.ghg_s1s2, s3.ghg_s3)
         IN  IF Lt(NumpyDiv(s3.ghg_s3, company_emissions), S3Threshold)
             THEN Returned(<<s1s2.temperature_score, s1s2.temperature_results>>)
             ELSE Returned(
                    <<NumpyDiv(Add(Mul(s1s2.temperature_score, s1s2.ghg_s1s2),
                                   Mul(s3.temperature_score, s3.ghg_s3)),
                               company_emissions),
                      NumpyDiv(Add(Mul(s1s2.temperature_results, s1s2.ghg_s1s2),
                                   Mul(s3.temperature_results, s3.ghg_s3)),
                               company_emissions)>>)

\* TemperatureScore._calculate_company_score: the frame with the blended
\* scores, or the first exception of the row-wise pass (the frame is then
\* left as it was: the columns are assigned after the pass).
calculate_company_score(rows) ==
    LET out == [i \in 1..Len(rows) |-> get_ghc_temperature_score(rows[i], rows)]
    IN  IF FirstExc(out) # "none" THEN [exc |-> FirstExc(out), rows |-> rows]
        ELSE [exc |-> "none",
              rows |-> [i \in 1..Len(rows) |->
                           [rows[i] EXCEPT !.temperature_score = out[i].val[1],
                                           !.temperature_results = out[i].val[2]]]]

-----------------------------------------------------------------------------
(* Aggregator *)

WATS == "WATS"
EQUAL == "EQUAL"

\* PortfolioAggregation._calculate_aggregate_score: each row's weighted value
\* of a column, the weights of the method summing to 1 over the rows.  WATS
\* weighs by investment value, EQUAL gives every row the same weight.
calculate_aggregate_score(rows, column, method) ==
    LET total == SumSkipNull([i \in 1..Len(rows) |-> rows[i].investment_value])
        Weight(r) == IF method = WATS THEN NumpyDiv(r.investment_value, total)
                     ELSE NumpyDiv(Num(1), Num(Len(rows)))
    IN  [i \in 1..Len(rows) |-> Mul(Weight(rows[i]), rows[i][column])]

\* c.COLS.TEMPERATURE_SCORE and c.TEMPERATURE_RESULTS
TEMPERATURE_SCORE == "temperature_score"
TEMPERATURE_RESULTS == "temperature_results"

\* c.CONTRIBUTION_COLUMNS: the projection of a row in a contribution list.
ContributionRecord(r) ==
    [company_name |-> r.company_name, company_id |-> r.company_id,
     temperature_score |-> r.temperature_score,
     contribution_relative |-> r.contribution_relative,
     contribution |-> r.contribution]

\* Whether row a goes before row b in sort_values(CONTRIBUTION_RELATIVE,
\* ascending=False): the larger value first, missing values last.
Before(a, b) ==
    \/ Lt(b.contribution_relative, a.contribution_relative)
    \/ ~isnull(a.contribution_relative) /\ isnull(b.contribution_relative)

RECURSIVE InsertDesc(_, _)
\* r inserted into a sorted sequence after every row it does not precede.
InsertDesc(r, sorted) ==
    IF sorted = <<>> THEN <<r>>
    ELSE IF Before(r, Head(sorted)) THEN <<r>> \o sorted
    ELSE <<Head(sorted)>> \o InsertDesc(r, Tail(sorted))

RECURSIVE SortDesc(_)
\* DataFrame.sort_values(CONTRIBUTION_RELATIVE, ascending=False); rows that
\* compare equal keep their order.
SortDesc(rows) ==
    IF rows = <<>> THEN <<>>
    ELSE InsertDesc(rows[Len(rows)], SortDesc(SubSeq(rows, 1, Len(rows) - 1)))

\* The working copy of _get_aggregations with its two contribution columns.
WithContributions(rows, method) ==
    LET weighted_scores == calculate_aggregate_score(rows, TEMPERATURE_SCORE, method)
        hundredth == NumpyDiv(SumSkipNull(weighted_scores), Num(100))
    IN  [i \in 1..Len(rows) |->
            [rows[i] EXCEPT
                !.contribution_relative = NumpyDiv(weighted_scores[i], hundredth),
                !.contribution = weighted_scores[i]]]

\* A plausible slip: the score taken as the mean of the weighted scores.
get_aggregations_MeanScore(rows, method) ==
    LET weighted_scores == calculate_aggregate_score(rows, TEMPERATURE_SCORE, method)
        copy == WithContributions(rows, method)
        sorted == SortDesc(copy)
    IN  [score |-> Mean(weighted_scores),
         contributions |-> [i \in 1..Len(sorted) |-> ContributionRecord(sorted[i])],
         contribution_relative |-> [i \in 1..Len(copy) |-> copy[i].contribution_relative],
         contribution |-> [i \in 1..Len(copy) |-> copy[i].contribution]]

\* TemperatureScore._get_aggregations: the {score, contributions} record and
\* the two contribution columns.
get_aggregations(rows, method) ==
    LET weighted_scores == calculate_aggregate_score(rows, TEMPERATURE_SCORE, method)
        copy == WithContributions(rows, method)
        sorted == SortDesc(copy)
    IN  [score |-> SumSkipNull(weighted_scores),
         contributions |-> [i \in 1..Len(sorted) |-> ContributionRecord(sorted[i])],
         contribution_relative |-> [i \in 1..Len(copy) |-> copy[i].contribution_relative],
         contribution |-> [i \in 1..Len(copy) |-> copy[i].contribution]]

\* The rows of one (time-frame, scope-category) cell.
Cell(rows, time_frame, scope) ==
    LET In(r) == r.time_frame = time_frame /\ r.scope_category = scope
    IN  Filter([j \in 1..Len(rows) |-> In(rows[j])], rows)

\* A row's value in a grouping column.
ColumnValue(r, column) ==
    CASE column = "company_name"     -> r.company_name
      [] column = "intensity_metric" -> r.intensity_metric
      [] column = "scope_category"   -> r.scope_category

RECURSIVE Join(_)
\* "-".join(names)
Join(names) ==
    IF Len(names) = 1 THEN names[1]
    ELSE names[1] \o "-" \o Join(Tail(names))

\* The group name of a row under self.grouping, joined as aggregate_scores
\* joins it.
GroupName(r, grouping_columns) ==
    Join([i \in 1..Len(grouping_columns) |-> ColumnValue(r, grouping_columns[i])])

\* The aggregation of one cell: None for a cell without rows.
AggregateCell(rows, time_frame, scope, method, grouping_columns) ==
    LET filtered_data == Cell(rows, time_frame, scope)
        all == get_aggregations(filtered_data, method)
        names == {GroupName(filtered_data[i], grouping_columns) :
                    i \in 1..Len(filtered_data)}
        InGroup(name) == LET In(r) == GroupName(r, grouping_columns) = name
                         IN  Filter([j \in 1..Len(filtered_data) |-> In(filtered_data[j])], filtered_data)
    IN  IF filtered_data = <<>> THEN [isnone |-> TRUE]
        ELSE [isnone |-> FALSE,
              all |-> [score |-> all.score, contributions |-> all.contributions],
              influence_percentage |->
                  Mul(SumSkipNull(calculate_aggregate_score(
                          filtered_data, TEMPERATURE_RESULTS, method)),
                      Num(100)),
              groups |-> IF Len(grouping_columns) > 0
                         THEN [name \in names |->
                                 LET g == get_aggregations(InGroup(name), method)
                                 IN  [score |-> g.score,
                                      contributions |-> g.contributions]]
                         ELSE <<>>]

\* TemperatureScore.aggregate_scores: portfolio_scores as a function of the
\* (time-frame, scope-category) pairs asked for.
aggregate_scores(rows, time_frames, scope_categories, method, grouping_columns) ==
    LET tfs == IF Len(time_frames) = 0
               THEN Unique([i \in 1..Len(rows) |-> rows[i].time_frame])
               ELSE time_frames
        scs == IF Len(scope_categories) = 0
               THEN Unique([i \in 1..Len(rows) |-> rows[i].scope_category])
               ELSE scope_categories
    IN  [cell \in Range(tfs) \X Range(scs) |->
            AggregateCell(rows, cell[1], cell[2], method, grouping_columns)]

\* A plausible slip: the contribution columns written to the frame passed in
\* instead of the filtered copy.
frame_after_aggregate_InPlace(rows, time_frames, scope_categories, method) ==
    [i \in 1..Len(rows) |->
        LET cell == Cell(rows, rows[i].time_frame, rows[i].scope_category)
            copy == WithContributions(cell, method)
            k == CHOOSE j \in 1..Len(cell) : cell[j] = rows[i]
        IN  copy[k]]

\* The frame the caller passed to aggregate_scores, as the call leaves it:
\* every write goes to filtered_data or to the copy _get_aggregations makes.
frame_after_aggregate(rows, time_frames, scope_categories, method) ==
    rows

-----------------------------------------------------------------------------
(* Scenario Capper *)

TypeError == "TypeError"

\* The number of contributors cap_scores engages per cell.
TopContributors == 10

Min(a, b) == IF a < b THEN a ELSE b

\* A plausible slip: max for min in the clamp.
Clamp_Max(x, cap) == PyMax(x, cap)

\* The clamp of cap_scores: lambda x: min(x, self.scenario.get_score_cap())
Clamp(x, cap) == PyMin(x, cap)

\* scores.loc[mask, TEMPERATURE_SCORE] = scores.loc[mask, ...].apply(clamp)
ClampWhere(rows, mask, cap) ==
    [i \in 1..Len(rows) |->
        IF mask[i]
        THEN [rows[i] EXCEPT !.temperature_score = Clamp(@, cap)]
        ELSE rows[i]]

\* The company names of the first n records of a contribution list.
TopNames(contributions, n) == {contributions[i].company_name : i \in 1..n}

\* The (time-frame, scope-category) pairs in the order cap_scores visits them.
CapCells(rows) ==
    LET scopes == Unique([i \in 1..Len(rows) |-> rows[i].scope_category])
    IN  Concat([t \in 1..Len(VALUE_TIME_FRAMES) |->
                   [k \in 1..Len(scopes) |-> <<VALUE_TIME_FRAMES[t], scopes[k]>>]])

RECURSIVE CapTopContributors(_, _, _, _)
\* The loop of the HIGHEST_CONTRIBUTORS branch over the cells left to visit:
\* a time-frame that is no key of the aggregations raises KeyError, a cell
\* whose aggregation is None raises TypeError, and the rows clamped before
\* the exception stay clamped.
CapTopContributors(rows, cells, aggregations, cap) ==
    IF cells = <<>> THEN [exc |-> "none", rows |-> rows]
    ELSE LET cell == Head(cells)
         IN  IF cell \notin DOMAIN aggregations
             THEN [exc |-> KeyError, rows |-> rows]
             ELSE IF aggregations[cell].isnone
             THEN [exc |-> TypeError, rows |-> rows]
             ELSE LET contributions == aggregations[cell].all.contributions
                      number_top_contributors ==
                          Min(TopContributors, Len(contributions))
                      top == TopNames(contributions, number_top_contributors)
                      company_mask(r) == /\ r.company_name \in top
                                         /\ r.scope_category = cell[2]
                                         /\ r.time_frame = cell[1]
                  IN  CapTopContributors(ClampWhere(rows, [j \in 1..Len(rows) |-> company_mask(rows[j])], cap),
                                         Tail(cells), aggregations, cap)

\* TemperatureScore.cap_scores: the frame as the call leaves it and the
\* exception that ended it, if any.
cap_scores(scores, sc, method, grouping_columns) ==
    IF sc = NoScenario THEN [exc |-> "none", rows |-> scores]
    ELSE IF sc.scenario_type = APPROVED_TARGETS
    THEN LET score_based_on_target(r) == ~r.target_reference_number.isnone
         IN  [exc |-> "none",
              rows |-> ClampWhere(scores, [j \in 1..Len(scores) |-> score_based_on_target(scores[j])], get_score_cap(sc))]
    ELSE IF sc.scenario_type = HIGHEST_CONTRIBUTORS
    THEN CapTopContributors(
             scores, CapCells(scores),
             aggregate_scores(scores, <<>>, <<>>, method, grouping_columns),
             get_score_cap(sc))
    ELSE IF sc.scenario_type = HIGHEST_CONTRIBUTORS_APPROVED
    THEN LET flagged == [i \in 1..Len(scores) |->
                            [scores[i] EXCEPT !.engagement_target =
                                IF @ = "True" THEN "True" ELSE "False"]]
             score_based_on_target(r) == r.engagement_target = "True"
         IN  [exc |-> "none",
              rows |-> ClampWhere(flagged, [j \in 1..Len(flagged) |-> score_based_on_target(flagged[j])], get_score_cap(sc))]
    ELSE [exc |-> "none", rows |-> scores]

-----------------------------------------------------------------------------
(* Temperature Score Orchestrator *)

NoError == "none"

\* TemperatureScore.__init__: the fallback score the instance keeps.
init_fallback_score(sc, fallback) ==
    IF sc # NoScenario THEN get_fallback_score(sc, fallback) ELSE fallback

\* The first lines of _prepare_data: missing target-reference-numbers become
\* the absolute marker, then the SR15 mapping of every row.
map_targets(rows) ==
    LET replaced == [i \in 1..Len(rows) |->
                        [rows[i] EXCEPT !.target_reference_number =
                            IF @.isnone THEN Str(VALUE_TARGET_REFERENCE_ABSOLUTE)
                            ELSE @]]
    IN  [i \in 1..Len(replaced) |->
            [replaced[i] EXCEPT !.sr15 = get_target_mapping(replaced[i])]]

\* The scalars of the rows data.apply(axis=1) hands to its function: the
\* frame holds columns of strings, so every row is an object Series of
\* Python scalars.
ApplyBoxing == "python"

\* The reduction-rate pass of _prepare_data.
reduction_rates(rows) ==
    LET out == [i \in 1..Len(rows) |->
                   get_annual_reduction_rate(rows[i], ApplyBoxing)]
    IN  IF FirstExc(out) # "none" THEN [exc |-> FirstExc(out), rows |-> rows]
        ELSE [exc |-> "none",
              rows |-> [i \in 1..Len(rows) |->
                           [rows[i] EXCEPT !.annual_reduction_rate = out[i].val]]]

\* The scoring pass of _prepare_data.
score_rows(rows, fallback) ==
    [i \in 1..Len(rows) |->
        [rows[i] EXCEPT !.temperature_score = get_score(rows[i], fallback)[1],
                        !.temperature_results = get_score(rows[i], fallback)[2]]]

\* TemperatureScore._prepare_data: the frame it returns, or the exception
\* that ended it and the frame as it stood.
prepare_data(rows, sc, fallback, model, method, grouping_columns) ==
    LET rated == reduction_rates(map_targets(rows))
    IN  IF rated.exc # "none" THEN rated
        ELSE cap_scores(score_rows(merge_regression(rated.rows, model), fallback),
                        sc, method, grouping_columns)

\* TemperatureScore.calculate
calculate(rows, sc, fallback, model, method, grouping_columns) ==
    LET prepared == prepare_data(rows, sc, fallback, model, method, grouping_columns)
    IN  IF prepared.exc # "none" THEN prepared
        ELSE calculate_company_score(prepared.rows)

-----------------------------------------------------------------------------
(* The instance before any call: the defaults of TemperatureScore.__init__ *)

DefaultFallback == Rat(32, 10)

NoCall == [kind |-> "none"]

Fresh ==
    /\ scenario = NoScenario
    /\ fallback_score = DefaultFallback
    /\ aggregation_method = WATS
    /\ grouping = <<>>
    /\ regression_model = <<>>
    /\ data = <<>>
    /\ pc = "start"
    /\ error = NoError
    /\ ret = None
    /\ arg = NoCall

-----------------------------------------------------------------------------
(* Scenario resolution and construction *)

S_set_targets      == <<"s","e","t","_","t","a","r","g","e","t","s">>
S_set_sbti_targets == <<"s","e","t","_","s","b","t","i","_","t","a","r","g","e","t","s">>
S_Set_Sbti_Targets == <<"S","e","t","_","S","b","t","i","_","T","a","r","g","e","t","s">>
S_SET_SBTI         == <<"S","E","T","_","S","B","T","I">>
S_SBTI_TARGETS_SP  == <<"S","E","T","_","S","B","T","I","_","T","A","R","G","E","T","S"," ">>
S_other            == <<"o","t","h","e","r">>

\* The engagement-type strings a selection may carry.
EngagementStrings ==
    {NoneStr, Str(<<>>), Str(S_SET_TARGETS), Str(S_set_targets),
     Str(S_SET_SBTI_TARGETS), Str(S_set_sbti_targets), Str(S_Set_Sbti_Targets),
     Str(S_SET_SBTI), Str(S_SBTI_TARGETS_SP), Str(S_other)}

\* The scenario-type codes a selection may carry.
ScenarioNumbers ==
    {None, Num(-1), Num(0), Num(1), Num(2), Num(3), Num(4), Num(5), Rat(3, 2)}

\* The fallback scores a caller may configure.
FallbackScores == {Rat(32, 10), Num(2), Rat(15, 10)}

InitScenario == Fresh

\* Scenario.from_dict on a dictionary that may lack either key.
FromDict ==
    /\ pc = "start"
    /\ \E hn \in BOOLEAN, he \in BOOLEAN, n \in ScenarioNumbers, e \in EngagementStrings :
          /\ hn \/ n = None
          /\ he \/ e = NoneStr
          /\ arg' = Selection("dict", hn, n, he, e)
          /\ ret' = from_dict(Selection("dict", hn, n, he, e))
    /\ pc' = "resolved"
    /\ UNCHANGED <<scenario, fallback_score, aggregation_method, grouping,
                   regression_model, data, error>>

\* Scenario.from_interface on an interface object or on None.
FromInterface ==
    /\ pc = "start"
    /\ \E k \in {"interface", "none"}, n \in ScenarioNumbers, e \in EngagementStrings :
          /\ k = "interface" \/ (n = None /\ e = NoneStr)
          /\ arg' = Selection(k, k = "interface", n, k = "interface", e)
          /\ ret' = from_interface(Selection(k, k = "interface", n, k = "interface", e))
    /\ pc' = "resolved"
    /\ UNCHANGED <<scenario, fallback_score, aggregation_method, grouping,
                   regression_model, data, error>>

\* TemperatureScore.__init__ with the resolved scenario.
Construct ==
    /\ pc = "resolved"
    /\ \E fb \in FallbackScores :
          fallback_score' = init_fallback_score(ret, fb)
    /\ scenario' = ret
    /\ pc' = "constructed"
    /\ UNCHANGED <<aggregation_method, grouping, regression_model, data, error,
                   ret, arg>>

\* scenario.get_score_cap() on the scenario the instance was built with.
GetScoreCap ==
    /\ pc = "constructed"
    /\ scenario # NoScenario
    /\ ret' = get_score_cap(scenario)
    /\ pc' = "cap_read"
    /\ UNCHANGED <<scenario, fallback_score, aggregation_method, grouping,
                   regression_model, data, error, arg>>

NextScenario == FromDict \/ FromInterface \/ Construct \/ GetScoreCap

SpecScenario == InitScenario /\ [][NextScenario]_vars

\* Two characters that are the same letter in either case, or the same character.
SameIgnoringCase(c1, c2) ==
    \/ c1 = c2
    \/ \E i \in 1..Len(LowerCase) : {c1, c2} = {LowerCase[i], UpperCase[i]}

\* Two strings that are equal ignoring case.
EqualsIgnoringCase(s, t) ==
    /\ Len(s) = Len(t)
    /\ \A i \in 1..Len(s) : SameIgnoringCase(s[i], t[i])

\* The scenario-type code the selection of the last call carries, None if it
\* carries none.
SelectedCode == IF arg.kind # "none" /\ arg.has_number THEN arg.number ELSE None

\* Whether the selection of the last call names SET_SBTI_TARGETS in any case.
SelectsSbti ==
    /\ arg.kind # "none"
    /\ arg.has_engagement
    /\ ~arg.engagement_type.isnone
    /\ EqualsIgnoringCase(arg.engagement_type.s, S_SET_SBTI_TARGETS)

\* C10: resolve returns a Scenario exactly for the codes 1, 2, 3, 4, mapped
\* to TARGETS, APPROVED_TARGETS, HIGHEST_CONTRIBUTORS and
\* HIGHEST_CONTRIBUTORS_APPROVED, and None for every other or missing code;
\* the engagement type is SET_SBTI_TARGETS only for the string
\* 'SET_SBTI_TARGETS' in any case, and SET_TARGETS otherwise.
C10_Resolve ==
    pc = "resolved" =>
        /\ (ret # NoScenario) <=> (SelectedCode \in {Num(1), Num(2), Num(3), Num(4)})
        /\ SelectedCode = Num(1) => ret.scenario_type = TARGETS
        /\ SelectedCode = Num(2) => ret.scenario_type = APPROVED_TARGETS
        /\ SelectedCode = Num(3) => ret.scenario_type = HIGHEST_CONTRIBUTORS
        /\ SelectedCode = Num(4) => ret.scenario_type = HIGHEST_CONTRIBUTORS_APPROVED
        /\ ret # NoScenario =>
              ret.engagement_type =
                  IF SelectsSbti THEN SET_SBTI_TARGETS ELSE SET_TARGETS

\* A scenario resolved from code 4 and a lower-case engagement string.
C10_Witness ==
    /\ pc = "resolved"
    /\ arg.kind = "dict"
    /\ arg.number = Num(4)
    /\ arg.engagement_type = Str(S_set_sbti_targets)
    /\ ret = [scenario_type |-> HIGHEST_CONTRIBUTORS_APPROVED,
              engagement_type |-> SET_SBTI_TARGETS]

\* C11: for every scenario the resolver returns the score cap is 2.0 when
\* the engagement type is SET_TARGETS and 1.75 otherwise, and never the
\* not-a-number of the third branch.
C11_ScoreCap ==
    pc = "cap_read" =>
        /\ ret = IF scenario.engagement_type = SET_TARGETS THEN Num(2)
                 ELSE Rat(175, 100)
        /\ ret # NaN
        /\ IsNum(ret)

\* The cap of a resolved APPROVED_TARGETS scenario with the default
\* engagement type has been read.
C11_Witness ==
    /\ pc = "cap_read"
    /\ scenario = [scenario_type |-> APPROVED_TARGETS, engagement_type |-> SET_TARGETS]
    /\ arg.kind = "dict"
    /\ ~arg.has_engagement
    /\ ret = Num(2)

-----------------------------------------------------------------------------
(* Input domains *)

T_Abs      == Str(<<"A","b","s"," ","1">>)
T_Int      == Str(<<"I","n","t"," ","1">>)
T_SpaceInt == Str(<<" ","I","n","t"," ","2">>)

KYOTO == "Emissions|Kyoto Gases"

\* A reference table with at most one row per (variable, slope) pair.
RefUnique ==
    <<Reference(KYOTO, "slope5", Rat(-3, 5), Rat(27, 10)),
      Reference(KYOTO, "slope15", Rat(-1, 2), Rat(5, 2)),
      Reference("INT.emKyoto_gdp", "slope5", Rat(-2, 5), Num(3))>>

\* A reference table with two rows for the pair (KYOTO, slope5).
RefDuplicate ==
    <<Reference(KYOTO, "slope5", Rat(-3, 5), Rat(27, 10)),
      Reference(KYOTO, "slope5", Rat(-1, 2), Num(2)),
      Reference(KYOTO, "slope15", Rat(-1, 2), Rat(5, 2))>>

\* A reference table with missing entries.
RefGaps ==
    <<Reference(KYOTO, "slope5", None, Rat(27, 10)),
      Reference(KYOTO, "slope15", Rat(-1, 2), NaN),
      Reference("INT.emKyoto_gdp", "slope5", NaN, None)>>

RegressionModels == {RefUnique, RefDuplicate, RefGaps, <<>>}

TimeFrames == {"short", "mid", "long"}

\* Reduction ambitions: missing, zero and two fractions.
Ambitions == {None, NaN, Zero, Rat(1, 2), Rat(3, 10)}

StartYears == {Num(2015), Num(2020)}
EndYears   == {Num(2020), Num(2030)}

-----------------------------------------------------------------------------
(* The score engine on one target: mapping, reduction rate, regression      *)
(* lookup and score, each called on the row as the previous call left it.   *)

InitScore ==
    /\ scenario = NoScenario
    /\ fallback_score \in FallbackScores
    /\ aggregation_method = WATS
    /\ grouping = <<>>
    /\ regression_model \in RegressionModels
    /\ \E trn \in {T_Abs, T_Int, T_SpaceInt}, metric \in {"Revenue", "Oil", "Other"},
          tf \in TimeFrames, amb \in Ambitions, sy \in StartYears, ey \in EndYears :
          data = <<Target("A", tf, S1S2, trn, metric, amb, sy, ey,
                          Num(1), Num(1), Num(1), NullStr)>>
    /\ pc = "start"
    /\ error = NoError
    /\ ret = None
    /\ arg \in {[kind |-> "target", boxing |-> b] : b \in Boxings}

\* get_target_mapping(target), the result kept in the row's SR15 column.
MapTarget ==
    /\ pc = "start"
    /\ ret' = get_target_mapping(data[1])
    /\ data' = <<[data[1] EXCEPT !.sr15 = get_target_mapping(data[1])]>>
    /\ pc' = "mapped"
    /\ UNCHANGED <<scenario, fallback_score, aggregation_method, grouping,
                   regression_model, error, arg>>

\* get_annual_reduction_rate(target), the result kept in the row.
GetAnnualReductionRate ==
    /\ pc = "mapped"
    /\ LET out == get_annual_reduction_rate(data[1], arg.boxing)
       IN  /\ ret' = out.val
           /\ error' = out.exc
           /\ pc' = IF out.exc = "none" THEN "rated" ELSE "failed"
           /\ data' = IF out.exc = "none"
                      THEN <<[data[1] EXCEPT !.annual_reduction_rate = out.val]>>
                      ELSE data
    /\ UNCHANGED <<scenario, fallback_score, aggregation_method, grouping,
                   regression_model, arg>>

\* get_regression(target), the pair kept in the row.
GetRegression ==
    /\ pc = "rated"
    /\ LET out == get_regression(data[1], regression_model)
       IN  /\ ret' = out.val
           /\ error' = out.exc
           /\ pc' = IF out.exc = "none" THEN "regressed" ELSE "failed"
           /\ data' = IF out.exc = "none"
                      THEN <<[data[1] EXCEPT !.param = out.val[1],
                                             !.intercept = out.val[2]]>>
                      ELSE data
    /\ UNCHANGED <<scenario, fallback_score, aggregation_method, grouping,
                   regression_model, arg>>

\* get_score(target), the pair kept in the row.
GetScore ==
    /\ pc = "regressed"
    /\ ret' = get_score(data[1], fallback_score)
    /\ data' = <<[data[1] EXCEPT
                    !.temperature_score = get_score(data[1], fallback_score)[1],
                    !.temperature_results = get_score(data[1], fallback_score)[2]]>>
    /\ pc' = "scored"
    /\ UNCHANGED <<scenario, fallback_score, aggregation_method, grouping,
                   regression_model, error, arg>>

NextScore == MapTarget \/ GetAnnualReductionRate \/ GetRegression \/ GetScore

SpecScore == InitScore /\ [][NextScore]_vars

\* A row that lacks the regression parameter, the intercept or the rate.
LacksData(r) ==
    isnull(r.param) \/ isnull(r.intercept) \/ isnull(r.annual_reduction_rate)

\* C1: a row whose regression parameter, intercept or annual reduction rate
\* is missing scores exactly the configured fallback score with
\* is_default = 1, whatever the other two values are.
C1_FallbackOnMissing ==
    (pc = "scored" /\ LacksData(data[1])) =>
        /\ ret = <<fallback_score, Num(1)>>
        /\ data[1].temperature_score = fallback_score
        /\ data[1].temperature_results = Num(1)

\* A scored row that lacks only its regression parameter.
C1_Witness ==
    /\ pc = "scored"
    /\ isnull(data[1].param)
    /\ ~isnull(data[1].intercept)
    /\ ~isnull(data[1].annual_reduction_rate)
    /\ data[1].temperature_score = fallback_score

\* C2: every scored row has temperature_score >= 0, and a row with its
\* regression parameter, intercept and rate present scores exactly
\* max(parameter * rate * 100 + intercept, 0) with is_default = 0.
C2_FlooredAtZero ==
    pc = "scored" =>
        /\ Le(Zero, data[1].temperature_score)
        /\ ~LacksData(data[1]) =>
              /\ data[1].temperature_results = Zero
              /\ data[1].temperature_score =
                    IF Le(Linear(data[1]), Zero) THEN Zero ELSE Linear(data[1])

\* A scored row whose linear expression is negative and whose score is 0.
C2_Witness ==
    /\ pc = "scored"
    /\ ~LacksData(data[1])
    /\ Lt(Linear(data[1]), Zero)
    /\ data[1].temperature_score = Zero
    /\ data[1].temperature_results = Zero

\* C8: with a reduction ambition and equal start and target years the
\* reduction-rate calculator fails with the "same start and target year"
\* error and returns nothing; with no ambition it returns None; otherwise it
\* returns ambition / (target_year - start_year).
C8_RateOrDomainError ==
    pc \in {"rated", "failed"} =>
        IF isnull(data[1].reduction_ambition)
        THEN pc = "rated" /\ ret = None
        ELSE IF data[1].start_year = data[1].end_year
        THEN pc = "failed" /\ error = ValueError_SameYear
        ELSE /\ pc = "rated"
             /\ ret = Rat(data[1].reduction_ambition.n *
                              (data[1].end_year.d * data[1].start_year.d),
                          data[1].reduction_ambition.d *
                              (data[1].end_year.n - data[1].start_year.n))

-----------------------------------------------------------------------------
(* calculate on a table of targets *)

\* The longest table calculate is run on.
MaxCalcRows == 3

\* The sequences of length 1..n over a set.
SeqsUpTo(S, n) == UNION {[1..k -> S] : k \in 1..n}

\* The targets of the tables: one company, every scope category, a
\* time-frame with and one without a slope in the reference tables, with and
\* without a reduction ambition.
CalcTargets ==
    {Target("A", tf, sc, T_Abs, "Revenue", amb, Num(2020), Num(2030),
            Num(1), Num(1), Num(1), NullStr) :
        tf \in {"short", "long"}, sc \in {S1S2, S3, S1S2S3},
        amb \in {None, Rat(1, 2)}}

\* The scenarios calculate is run under.
CalcScenarios ==
    {NoScenario,
     [scenario_type |-> APPROVED_TARGETS, engagement_type |-> SET_SBTI_TARGETS]}

InitCalc ==
    /\ scenario \in CalcScenarios
    /\ fallback_score = init_fallback_score(scenario, DefaultFallback)
    /\ aggregation_method = WATS
    /\ grouping = <<>>
    /\ regression_model \in {RefUnique, RefDuplicate}
    /\ data \in SeqsUpTo(CalcTargets, MaxCalcRows)
    /\ pc = "start"
    /\ error = NoError
    /\ ret = None
    /\ arg = NoCall

\* calculate(data): the frame it returns, or the exception that ended it.
Calculate ==
    /\ pc = "start"
    /\ \E out \in {calculate(data, scenario, fallback_score, regression_model,
                             aggregation_method, grouping)} :
          /\ data' = out.rows
          /\ error' = out.exc
          /\ pc' = IF out.exc = "none" THEN "done" ELSE "failed"
    /\ arg' = [kind |-> "calculate", input |-> data]
    /\ UNCHANGED <<scenario, fallback_score, aggregation_method, grouping,
                   regression_model, ret>>

NextCalc == Calculate

SpecCalc == InitCalc /\ [][NextCalc]_vars

\* A target of the input that maps to a (variable, slope) pair the reference
\* table holds twice.
HitsDuplicatePair(rows, model) ==
    \E i \in 1..Len(rows) :
        Len(Matches(model, map_targets(rows)[i].sr15,
                    SLOPE_MAP[rows[i].time_frame])) > 1

\* C7: when a target maps to a (variable, slope) pair the reference table
\* holds twice, calculate raises the "more than one potential regression
\* parameter" error: it picks neither row, scores no target twice and leaves
\* the number of rows as it was.
C7_DuplicateIsFatal ==
    (pc \in {"done", "failed"} /\ HitsDuplicatePair(arg.input, regression_model)) =>
        /\ pc = "failed"
        /\ error = ValueError_Regression
        /\ Len(data) = Len(arg.input)

-----------------------------------------------------------------------------
(* cap_scores on a scored table *)

\* The longest table cap_scores is run on.
MaxCapRows == 3

\* A scored row: a target with its temperature score and default flag set.
Scored(company, time_frame, scope_category, trn, engagement_target, ghg_s1s2, ghg_s3, investment_value, score, is_default) ==
    [Target(company, time_frame, scope_category, trn, "Revenue", None,
            Num(2020), Num(2030), ghg_s1s2, ghg_s3, investment_value,
            engagement_target)
        EXCEPT !.temperature_score = score, !.temperature_results = is_default]

\* Scores between the two caps (1.75 and 2.0) and above both.
CapScoreValues == {Rat(19, 10), Rat(32, 10)}

\* The rows of the tables: with a target-reference-number and the engagement
\* flag false, or without the number and the flag true.
CapRows ==
    {Scored("A", tf, S1S2, mark[1], mark[2], Num(1), Num(1), Num(1), sv, Zero) :
        tf \in TimeFrames, sv \in CapScoreValues,
        mark \in {<<T_Abs, "False">>, <<NoneStr, "True">>}}

\* Every scenario the resolver can return, and no scenario.
ResolvedScenarios ==
    {NoScenario} \cup
    [scenario_type : {TARGETS, APPROVED_TARGETS, HIGHEST_CONTRIBUTORS,
                      HIGHEST_CONTRIBUTORS_APPROVED},
     engagement_type : {SET_TARGETS, SET_SBTI_TARGETS}]

InitCap ==
    /\ scenario \in ResolvedScenarios
    /\ fallback_score = init_fallback_score(scenario, DefaultFallback)
    /\ aggregation_method = WATS
    /\ grouping = <<>>
    /\ regression_model = RefUnique
    /\ data \in SeqsUpTo(CapRows, MaxCapRows)
    /\ pc = "start"
    /\ error = NoError
    /\ ret = None
    /\ arg = NoCall

\* cap_scores(data): the frame is clamped in place, also when the call ends
\* with an exception.
CapScores ==
    /\ pc = "start"
    /\ \E out \in {cap_scores(data, scenario, aggregation_method, grouping)} :
          /\ data' = out.rows
          /\ error' = out.exc
          /\ pc' = IF out.exc = "none" THEN "capped" ELSE "failed"
    /\ arg' = [kind |-> "cap", input |-> data]
    /\ UNCHANGED <<scenario, fallback_score, aggregation_method, grouping,
                   regression_model, ret>>

NextCap == CapScores

SpecCap == InitCap /\ [][NextCap]_vars

\* The smaller of a score and a cap.
Smaller(x, cap) == IF Lt(cap, x) THEN cap ELSE x

\* The rows the scenario of the instance selects for clamping, where the
\* selection is by a column of the row.
Selected(r) ==
    \/ scenario.scenario_type = APPROVED_TARGETS /\ ~r.target_reference_number.isnone
    \/ scenario.scenario_type = HIGHEST_CONTRIBUTORS_APPROVED /\ r.engagement_target = "True"

\* C3: capping never increases a score: after cap every row's score is <= its
\* score before, and every row cap touches ends with exactly
\* min(score before, cap).
C3_CapNeverIncreases ==
    pc \in {"capped", "failed"} =>
        /\ Len(data) = Len(arg.input)
        /\ \A i \in 1..Len(data) :
              /\ Le(data[i].temperature_score, arg.input[i].temperature_score)
              /\ \/ data[i].temperature_score = arg.input[i].temperature_score
                 \/ data[i].temperature_score =
                       Smaller(arg.input[i].temperature_score, get_score_cap(scenario))
              /\ Selected(arg.input[i]) =>
                    data[i].temperature_score =
                       Smaller(arg.input[i].temperature_score, get_score_cap(scenario))

\* A capped table in which one score was lowered to the cap and another,
\* already below the cap, was touched and kept.
C3_Witness ==
    /\ pc = "capped"
    /\ scenario.scenario_type = HIGHEST_CONTRIBUTORS
    /\ \E i \in 1..Len(data) :
          /\ data[i].temperature_score = get_score_cap(scenario)
          /\ Lt(data[i].temperature_score, arg.input[i].temperature_score)
    /\ \E i \in 1..Len(data) :
          /\ Lt(data[i].temperature_score, get_score_cap(scenario))
          /\ data[i].temperature_score = arg.input[i].temperature_score

\* The rows of the tables for the engagement flag: true, false and missing.
FlagRows ==
    {Scored("A", "short", S1S2, T_Abs, flag, Num(1), Num(1), Num(1), sv, Zero) :
        flag \in {"True", "False", NullStr}, sv \in CapScoreValues}

InitFlag ==
    /\ scenario \in ResolvedScenarios
    /\ fallback_score = init_fallback_score(scenario, DefaultFallback)
    /\ aggregation_method = WATS
    /\ grouping = <<>>
    /\ regression_model = RefUnique
    /\ data \in SeqsUpTo(FlagRows, MaxCapRows)
    /\ pc = "start"
    /\ error = NoError
    /\ ret = None
    /\ arg = NoCall

NextFlag == CapScores

SpecFlag == InitFlag /\ [][NextFlag]_vars

\* C16: cap changes only temperature scores: without a scenario and under
\* TARGETS the table stays as it was; under HIGHEST_CONTRIBUTORS_APPROVED a
\* row whose engagement flag is true ends with min(score, cap), a row whose
\* flag is false or missing keeps its score, and every other column of every
\* row keeps its value.
C16_OnlyScoresChange ==
    pc \in {"capped", "failed"} =>
        /\ (scenario = NoScenario \/ scenario.scenario_type = TARGETS) =>
              data = arg.input
        /\ scenario.scenario_type = HIGHEST_CONTRIBUTORS_APPROVED =>
              \A i \in 1..Len(data) :
                  data[i].temperature_score =
                      IF arg.input[i].engagement_target = "True"
                      THEN Smaller(arg.input[i].temperature_score,
                                   get_score_cap(scenario))
                      ELSE arg.input[i].temperature_score
        /\ Len(data) = Len(arg.input)
        /\ \A i \in 1..Len(data) :
              [data[i] EXCEPT !.temperature_score =
                                  arg.input[i].temperature_score] = arg.input[i]

\* Whether row i belongs to one of the top contributors of its cell, ranked
\* on the scores of the table as given.
InTopOfCell(rows, i, method, grouping_columns) ==
    LET cell == <<rows[i].time_frame, rows[i].scope_category>>
        contributions ==
            aggregate_scores(rows, <<>>, <<>>, method, grouping_columns)[cell]
                .all.contributions
    IN  rows[i].company_name \in
            TopNames(contributions, Min(TopContributors, Len(contributions)))

\* C14: under HIGHEST_CONTRIBUTORS cap completes without error for every
\* scored table, time-frames absent from the data included; the rows of the
\* top contributors of each cell, ranked before any clamping, end with
\* min(score, cap) and the other rows keep their score.
C14_TopContributorsCapped ==
    (pc \in {"capped", "failed"} /\ scenario.scenario_type = HIGHEST_CONTRIBUTORS)
    => /\ pc = "capped"
       /\ error = NoError
       /\ \A i \in 1..Len(data) :
             data[i].temperature_score =
                 IF InTopOfCell(arg.input, i, aggregation_method, grouping)
                 THEN Smaller(arg.input[i].temperature_score, get_score_cap(scenario))
                 ELSE arg.input[i].temperature_score

-----------------------------------------------------------------------------
(* _calculate_company_score on a scored table *)

\* The longest table the scope blender is run on.
MaxBlendRows == 3

\* The (S1+S2, S3) emissions of a row: none at all, an S3 share of 0.5 and
\* an S3 share of 0.25.
Emissions == {<<Zero, Zero>>, <<Num(1), Num(1)>>, <<Num(3), Num(1)>>}

\* A computed score with is_default 0 and the fallback with is_default 1.
BlendScores == {<<Rat(3, 2), Zero>>, <<Rat(32, 10), Num(1)>>}

\* The rows of the tables: one company and time-frame, every scope category.
BlendRows ==
    {Scored("A", "short", sc, T_Abs, NullStr, e[1], e[2], Num(1), sv[1], sv[2]) :
        sc \in {S1S2, S3, S1S2S3}, e \in Emissions, sv \in BlendScores}

InitBlend ==
    /\ scenario = NoScenario
    /\ fallback_score = DefaultFallback
    /\ aggregation_method = WATS
    /\ grouping = <<>>
    /\ regression_model = RefUnique
    /\ data \in SeqsUpTo(BlendRows, MaxBlendRows)
    /\ pc = "start"
    /\ error = NoError
    /\ ret = None
    /\ arg = NoCall

\* _calculate_company_score(data)
CalculateCompanyScore ==
    /\ pc = "start"
    /\ \E out \in {calculate_company_score(data)} :
          /\ data' = out.rows
          /\ error' = out.exc
          /\ pc' = IF out.exc = "none" THEN "blended" ELSE "failed"
    /\ arg' = [kind |-> "blend", input |-> data]
    /\ UNCHANGED <<scenario, fallback_score, aggregation_method, grouping,
                   regression_model, ret>>

NextBlend == CalculateCompanyScore

SpecBlend == InitBlend /\ [][NextBlend]_vars

\* Whether the company and time-frame of a row have an S1S2 and an S3 group.
HasBothGroups(r, rows) ==
    /\ Group(rows, r.company_id, r.time_frame, S1S2) # <<>>
    /\ Group(rows, r.company_id, r.time_frame, S3) # <<>>

\* The combined emissions of the groups of a row's company and time-frame.
CombinedEmissions(r, rows) ==
    Add(GroupMean(rows, r.company_id, r.time_frame, S1S2).ghg_s1s2,
        GroupMean(rows, r.company_id, r.time_frame, S3).ghg_s3)

\* What C4 says of row i of the input and of the blended table.
BlendedAsClaimed(i, before, after) ==
    LET r == before[i]
        s1s2 == GroupMean(before, r.company_id, r.time_frame, S1S2)
        s3 == GroupMean(before, r.company_id, r.time_frame, S3)
        total == CombinedEmissions(r, before)
        lo == IF Lt(s3.temperature_score, s1s2.temperature_score)
              THEN s3.temperature_score ELSE s1s2.temperature_score
        hi == IF Lt(s3.temperature_score, s1s2.temperature_score)
              THEN s1s2.temperature_score ELSE s3.temperature_score
    IN  IF r.scope_category # S1S2S3
        THEN /\ after[i].temperature_score = r.temperature_score
             /\ after[i].temperature_results = r.temperature_results
        ELSE IF total # Zero /\ Lt(Mul(s3.ghg_s3, Num(10)), Mul(total, Num(4)))
        THEN /\ after[i].temperature_score = s1s2.temperature_score
             /\ after[i].temperature_results = s1s2.temperature_results
        ELSE /\ Le(lo, after[i].temperature_score)
             /\ Le(after[i].temperature_score, hi)
             /\ Mul(after[i].temperature_score, total) =
                    Add(Mul(s1s2.temperature_score, s1s2.ghg_s1s2),
                        Mul(s3.temperature_score, s3.ghg_s3))

\* C4: an S1S2S3 row whose company has an S1S2 and an S3 group takes the
\* score and flag of the S1S2 group when the S3 share of the emissions is
\* below 0.4, and otherwise the emissions-weighted average, which lies
\* between the two group scores; rows of the other scope categories keep
\* their score and flag.
C4_BlendBounded ==
    pc = "blended" =>
        \A i \in 1..Len(data) : BlendedAsClaimed(i, arg.input, data)

\* C9: for an S1S2S3 row whose S1S2 and S3 groups have combined emissions of
\* zero the blender fails with the "mean emissions is zero" error and
\* returns no blended score.
C9_ZeroEmissionsIsFatal ==
    (/\ pc \in {"blended", "failed"}
     /\ \E i \in 1..Len(arg.input) :
           /\ arg.input[i].scope_category = S1S2S3
           /\ HasBothGroups(arg.input[i], arg.input)
           /\ CombinedEmissions(arg.input[i], arg.input) = Zero)
    => (pc = "failed" /\ error = ValueError_MeanZero)

-----------------------------------------------------------------------------
(* aggregate_scores on a scored table *)

\* The longest table aggregate_scores is run on.
MaxAggRows == 3

\* The investment value of each company of the portfolio.
Investment(company) == IF company = "A" THEN Num(1) ELSE Num(3)

\* The rows of the tables: two companies, two time-frames, a score of zero
\* (the floor of get_score) and a positive score.
AggRows ==
    {Scored(c, tf, S1S2, T_Abs, NullStr, Num(1), Num(1), Investment(c), sv, Zero) :
        c \in {"A", "B"}, tf \in {"short", "long"}, sv \in {Zero, Rat(3, 2)}}

\* The time_frames and scope_categories arguments: empty for "all of them".
TimeFrameArgs == {<<>>, <<"short">>, <<"short", "mid">>}
ScopeArgs == {<<>>, <<S1S2, S3>>}

InitAgg ==
    /\ scenario = NoScenario
    /\ fallback_score = DefaultFallback
    /\ aggregation_method \in {WATS, EQUAL}
    /\ grouping \in {<<>>, <<"company_name">>}
    /\ regression_model = RefUnique
    /\ data \in SeqsUpTo(AggRows, MaxAggRows)
    /\ pc = "start"
    /\ error = NoError
    /\ ret = None
    /\ arg \in {[kind |-> "aggregate", time_frames |-> tfs, scope_categories |-> scs] :
                  tfs \in TimeFrameArgs, scs \in ScopeArgs}

\* aggregate_scores(data, time_frames, scope_categories), called once and
\* then once more with the same arguments.
AggregateScores ==
    /\ pc \in {"start", "aggregated"}
    /\ ret' = aggregate_scores(data, arg.time_frames, arg.scope_categories,
                               aggregation_method, grouping)
    /\ data' = frame_after_aggregate(data, arg.time_frames, arg.scope_categories,
                                     aggregation_method)
    /\ pc' = IF pc = "start" THEN "aggregated" ELSE "reaggregated"
    /\ UNCHANGED <<scenario, fallback_score, aggregation_method, grouping,
                   regression_model, error, arg>>

NextAgg == AggregateScores

SpecAgg == InitAgg /\ [][NextAgg]_vars

\* The relative contributions of a cell's contribution list, added up.
ContributionTotal(cell) ==
    SumSkipNull([i \in 1..Len(cell.all.contributions) |->
                    cell.all.contributions[i].contribution_relative])

\* C5: in every non-empty (time-frame, scope-category) cell the relative
\* contributions of the rows sum to 100, whatever the cell holds, cells
\* whose scores are all zero included.
C5_ContributionsSumTo100 ==
    pc \in {"aggregated", "reaggregated"} =>
        \A cell \in DOMAIN ret :
            ~ret[cell].isnone => ContributionTotal(ret[cell]) = Num(100)

CellWeight(rows, i, method) ==
    IF method = WATS
    THEN Rat(rows[i].investment_value.n * SumSkipNull(
                 [k \in 1..Len(rows) |-> rows[k].investment_value]).d,
             rows[i].investment_value.d * SumSkipNull(
                 [k \in 1..Len(rows) |-> rows[k].investment_value]).n)
    ELSE Rat(1, Len(rows))

-----------------------------------------------------------------------------
(* calculate, stage by stage: the statements of _prepare_data and of        *)
(* calculate, each run on the frame as the previous one left it.            *)

\* The longest table the staged run works on.
MaxRunRows == 3

\* A plausible slip: the company-score pass moved before the capping.
StageAfter_BlendFirst(stage) ==
    CASE stage = "target-mapping"   -> "reduction-rate"
      [] stage = "reduction-rate"   -> "regression-merge"
      [] stage = "regression-merge" -> "scoring"
      [] stage = "scoring"          -> "scope-blending"
      [] stage = "scope-blending"   -> "capping"
      [] stage = "capping"          -> "returned"

\* The statement that runs after a stage has returned, in _prepare_data and
\* then in calculate.
StageAfter(stage) ==
    CASE stage = "target-mapping"   -> "reduction-rate"
      [] stage = "reduction-rate"   -> "regression-merge"
      [] stage = "regression-merge" -> "scoring"
      [] stage = "scoring"          -> "capping"
      [] stage = "capping"          -> "scope-blending"
      [] stage = "scope-blending"   -> "returned"

\* The targets of the tables: one company and time-frame; with a
\* target-reference-number in every scope category, without one in S1S2;
\* with and without a reduction ambition.
RunTargets ==
    {Target("A", "short", sc, T_Abs, "Revenue", amb, Num(2020), Num(2030),
            Num(1), Num(1), Num(1), NullStr) :
        sc \in {S1S2, S3, S1S2S3}, amb \in {None, Rat(3, 10)}}
    \cup
    {Target("A", "short", S1S2, NoneStr, "Revenue", amb, Num(2020), Num(2030),
            Num(1), Num(1), Num(1), NullStr) :
        amb \in {None, Rat(3, 10)}}

\* The scenarios of the staged run.
RunScenarios ==
    {NoScenario,
     [scenario_type |-> TARGETS, engagement_type |-> SET_TARGETS],
     [scenario_type |-> APPROVED_TARGETS, engagement_type |-> SET_TARGETS],
     [scenario_type |-> APPROVED_TARGETS, engagement_type |-> SET_SBTI_TARGETS],
     [scenario_type |-> HIGHEST_CONTRIBUTORS_APPROVED, engagement_type |-> SET_SBTI_TARGETS]}

\* The fallback scores the caller configures.
RunFallbacks == {Rat(32, 10), Rat(15, 10)}

\* The instance as __init__ leaves it and the frame handed to calculate;
\* arg keeps the caller's fallback, the frame as handed in, as the scoring
\* left it and as the capping left it.
InitRun ==
    /\ scenario \in RunScenarios
    /\ arg \in {[kind |-> "run", fallback |-> fb, input |-> <<>>,
                 scored |-> <<>>, capped |-> <<>>] : fb \in RunFallbacks}
    /\ fallback_score = init_fallback_score(scenario, arg.fallback)
    /\ aggregation_method = WATS
    /\ grouping = <<>>
    /\ regression_model = RefUnique
    /\ data \in SeqsUpTo(RunTargets, MaxRunRows)
    /\ pc = "target-mapping"
    /\ error = NoError
    /\ ret = None

\* _prepare_data, the replacement of missing reference numbers and the SR15
\* mapping.
StageTargetMapping ==
    /\ pc = "target-mapping"
    /\ data' = map_targets(data)
    /\ arg' = [arg EXCEPT !.input = data]
    /\ pc' = StageAfter(pc)
    /\ UNCHANGED <<scenario, fallback_score, aggregation_method, grouping,
                   regression_model, error, ret>>

\* _prepare_data, the annual reduction rates.
StageReductionRate ==
    /\ pc = "reduction-rate"
    /\ \E out \in {reduction_rates(data)} :
          /\ data' = out.rows
          /\ error' = out.exc
          /\ pc' = IF out.exc = "none" THEN StageAfter(pc) ELSE "failed"
    /\ UNCHANGED <<scenario, fallback_score, aggregation_method, grouping,
                   regression_model, ret, arg>>

\* _prepare_data, the merge with the regression table.
StageRegressionMerge ==
    /\ pc = "regression-merge"
    /\ data' = merge_regression(data, regression_model)
    /\ pc' = StageAfter(pc)
    /\ UNCHANGED <<scenario, fallback_score, aggregation_method, grouping,
                   regression_model, error, ret, arg>>

\* _prepare_data, the scores and default flags.
StageScoring ==
    /\ pc = "scoring"
    /\ data' = score_rows(data, fallback_score)
    /\ arg' = [arg EXCEPT !.scored = score_rows(data, fallback_score)]
    /\ pc' = StageAfter(pc)
    /\ UNCHANGED <<scenario, fallback_score, aggregation_method, grouping,
                   regression_model, error, ret>>

\* _prepare_data, the capping.
StageCapping ==
    /\ pc = "capping"
    /\ \E out \in {cap_scores(data, scenario, aggregation_method, grouping)} :
          /\ data' = out.rows
          /\ arg' = [arg EXCEPT !.capped = out.rows]
          /\ error' = out.exc
          /\ pc' = IF out.exc = "none" THEN StageAfter(pc) ELSE "failed"
    /\ UNCHANGED <<scenario, fallback_score, aggregation_method, grouping,
                   regression_model, ret>>

\* calculate, the company scores.
StageBlending ==
    /\ pc = "scope-blending"
    /\ \E out \in {calculate_company_score(data)} :
          /\ data' = out.rows
          /\ error' = out.exc
          /\ pc' = IF out.exc = "none" THEN StageAfter(pc) ELSE "failed"
    /\ UNCHANGED <<scenario, fallback_score, aggregation_method, grouping,
                   regression_model, ret, arg>>

NextRun ==
    \/ StageTargetMapping
    \/ StageReductionRate
    \/ StageRegressionMerge
    \/ StageScoring
    \/ StageCapping
    \/ StageBlending

SpecRun == InitRun /\ [][NextRun]_vars

\* C12: the fallback score of a run is 2.0 under scenario type TARGETS,
\* whatever the caller configured, and the caller's value otherwise and
\* without a scenario; under TARGETS every row that lacks regression data or
\* a reduction rate is scored exactly 2.0 with is_default = 1.
C12_FallbackUnderTargets ==
    /\ fallback_score = IF scenario.scenario_type = TARGETS THEN Num(2)
                        ELSE arg.fallback
    /\ (arg.scored # <<>> /\ scenario.scenario_type = TARGETS) =>
          \A i \in 1..Len(arg.scored) :
              LacksData(arg.scored[i]) =>
                  /\ arg.scored[i].temperature_score = Num(2)
                  /\ arg.scored[i].temperature_results = Num(1)

\* Under TARGETS, with 3.2 configured, a row without a reduction rate has
\* been scored 2.0.
C12_Witness ==
    /\ scenario.scenario_type = TARGETS
    /\ arg.fallback = Rat(32, 10)
    /\ pc = "capping"
    /\ \E i \in 1..Len(data) :
          /\ isnull(data[i].annual_reduction_rate)
          /\ data[i].temperature_score = Num(2)
          /\ data[i].temperature_results = Num(1)

\* C15: under APPROVED_TARGETS the capping inside calculate clamps to
\* min(score, cap) the rows that came with a target-reference-number and
\* leaves the score of the rows that came without one as the scoring set it.
C15_ApprovedTargetsSelection ==
    (arg.capped # <<>> /\ scenario.scenario_type = APPROVED_TARGETS) =>
        \A i \in 1..Len(arg.capped) :
            arg.capped[i].temperature_score =
                IF arg.input[i].target_reference_number.isnone
                THEN arg.scored[i].temperature_score
                ELSE Smaller(arg.scored[i].temperature_score, get_score_cap(scenario))

\* C17: calculate runs target-mapping, reduction-rate, regression-merge,
\* scoring, capping and scope-blending in this order; the table it returns
\* gives every S1S2S3 row the blend of the S1S2 and S3 group means of the
\* capped table, whatever the row's own score was, and leaves every other
\* row with its capped score.
C17_CapBeforeBlend ==
    [][/\ pc' = "reduction-rate"   => pc = "target-mapping"
       /\ pc' = "regression-merge" => pc = "reduction-rate"
       /\ pc' = "scoring"          => pc = "regression-merge"
       /\ pc' = "capping"          => pc = "scoring"
       /\ pc' = "scope-blending"   => pc = "capping"
       /\ pc' = "returned" =>
             /\ pc = "scope-blending"
             /\ data = arg.capped
             /\ Len(data') = Len(arg.capped)
             /\ \A i \in 1..Len(data') : BlendedAsClaimed(i, arg.capped, data')]_vars

\* A returned table in which an S1S2 score was clamped and an S1S2S3 row
\* ended with a blend that differs from its own capped score.
C17_Witness ==
    /\ pc = "returned"
    /\ \E k \in 1..Len(data) :
          /\ data[k].scope_category = S1S2
          /\ Lt(arg.capped[k].temperature_score, arg.scored[k].temperature_score)
    /\ \E i \in 1..Len(data) :
          /\ data[i].scope_category = S1S2S3
          /\ data[i].temperature_score # arg.capped[i].temperature_score
          /\ data[i].temperature_score # arg.scored[i].temperature_score

-----------------------------------------------------------------------------
(* anonymize_data_dump *)

\* The longest table anonymize_data_dump is run on.
MaxAnonRows == 3

Digits == <<"0", "1", "2", "3", "4", "5", "6", "7", "8", "9">>

RECURSIVE str(_)
\* str(n) of a non-negative integer.
str(n) ==
    IF n < 10 THEN Digits[n + 1]
    ELSE str(n \div 10) \o Digits[(n % 10) + 1]

RECURSIVE Rename(_, _, _)
\* The loop of anonymize_data_dump from entry index (0-based) of the names
\* on: every row whose name now equals the entry is renamed in place.
Rename(rows, names, index) ==
    IF index >= Len(names) THEN rows
    ELSE Rename([i \in 1..Len(rows) |->
                    IF rows[i].company_name = names[index + 1]
                    THEN [rows[i] EXCEPT !.company_name = "Company" \o str(index + 1)]
                    ELSE rows[i]],
                names, index + 1)

\* TemperatureScore.anonymize_data_dump: the two identifying columns
\* dropped, then the names replaced; the distinct names are read once,
\* before the loop.
anonymize_data_dump(scores) ==
    LET dropped == [i \in 1..Len(scores) |->
                       [company_name |-> scores[i].company_name,
                        temperature_score |-> scores[i].temperature_score]]
        names == Unique([i \in 1..Len(dropped) |-> dropped[i].company_name])
    IN  Rename(dropped, names, 0)

\* The company names of the tables, two of them of the form 'Company<N>'.
AnonNames == {"Acme", "Bolt", "Company1", "Company2"}

\* The rows of the tables.
AnonRows ==
    {[company_name |-> c, company_id |-> c, company_isic |-> "A12",
      temperature_score |-> sv] : c \in AnonNames, sv \in {Rat(3, 2), Rat(32, 10)}}

InitAnon ==
    /\ scenario = NoScenario
    /\ fallback_score = DefaultFallback
    /\ aggregation_method = WATS
    /\ grouping = <<>>
    /\ regression_model = RefUnique
    /\ data \in SeqsUpTo(AnonRows, MaxAnonRows)
    /\ pc = "start"
    /\ error = NoError
    /\ ret = None
    /\ arg = NoCall

\* anonymize_data_dump(data): the frame is changed in place and returned.
AnonymizeDataDump ==
    /\ pc = "start"
    /\ data' = anonymize_data_dump(data)
    /\ arg' = [kind |-> "anonymize", input |-> data]
    /\ pc' = "anonymized"
    /\ UNCHANGED <<scenario, fallback_score, aggregation_method, grouping,
                   regression_model, error, ret>>

NextAnon == AnonymizeDataDump

SpecAnon == InitAnon /\ [][NextAnon]_vars

\* The 1-based position of a row's name among the distinct names of the
\* table in first-seen order.
FirstSeen(rows, i) ==
    LET first == CHOOSE k \in 1..i :
                     /\ rows[k].company_name = rows[i].company_name
                     /\ \A j \in 1..(k - 1) :
                           rows[j].company_name # rows[i].company_name
    IN  Cardinality({rows[k].company_name : k \in 1..first})

\* C18: after anonymization every row carries 'Company<N>' with N the
\* first-seen position of its name; rows that had the same name share a
\* label and rows that had different names have different labels, also
\* when names already have the form 'Company<N>'.
C18_LabelsFollowNames ==
    pc = "anonymized" =>
        /\ Len(data) = Len(arg.input)
        /\ \A i \in 1..Len(data) :
              data[i].company_name = "Company" \o str(FirstSeen(arg.input, i))
        /\ \A i, k \in 1..Len(data) :
              (data[i].company_name = data[k].company_name)
                  <=> (arg.input[i].company_name = arg.input[k].company_name)

====
